---- MODULE Spec2Model ----
(***************************************************************************)
(* Model of SensoSysDataSource (src/Sensor Electronic/SensoSysDataSource.py) *)
(* : construction (port enumeration, configuration by guide or by file,    *)
(* bus scan, Continue prompt, device list), the header generation and the  *)
(* read cycle.                                                             *)
(*                                                                         *)
(* Python str values that the code parses or formats (console answers,     *)
(* instrument names, address ids, calibration dates, header names) are     *)
(* sequences of one-character strings.  Python's None / Optional is the    *)
(* empty sequence, a present value x is <<x>>.  A dict is the sequence of  *)
(* its <<key, value>> pairs in insertion order.                            *)
(***************************************************************************)
EXTENDS Integers, Sequences, FiniteSets, TLC

VARIABLES
    pc,                     \* position of the process
    sensosys_config_file,   \* constructor argument (Optional path)
    output_dir,             \* constructor argument (Optional path)
    sensosys_configs,       \* self.sensosys_configs
    available_ports,        \* self.available_ports
    log,                    \* records written by the logging module
    exit_code,              \* Optional exit status of sys.exit
    raised,                 \* Optional exception propagating to the caller
    config_file_state,      \* what is at the configuration file's path
    prompts,                \* input() calls so far, in order
    last_input,             \* Optional text returned by the last input() call
    files_written,          \* JSON files dumped so far, in order
    scan_ids,               \* the ids handed to _scan_devices
    scan_resp,              \* the answer to each identity query: Optional name
    bus_log,                \* driver reads issued by _scan_devices
    sensosys_devices,       \* self.sensosys_devices
    sensosys_devices_list,  \* self.sensosys_devices_list
    headers,                \* Optional result of get_all_measurement_parameters
    data,                   \* Optional result of the last read_data
    read_log,               \* records logged by the last read_data
    reads,                  \* addresses read by the last read_data
    exp_raw,                \* calibration date as read from a device
    exp_stored              \* calibration date as stored in the device record

vars == <<pc, sensosys_config_file, output_dir, sensosys_configs, available_ports,
          log, exit_code, raised, config_file_state, prompts, last_input, files_written,
          scan_ids, scan_resp, bus_log, sensosys_devices, sensosys_devices_list, headers, data,
          read_log, reads, exp_raw, exp_stored>>

-----------------------------------------------------------------------------
(* Bounds of the model *)

\* Addresses on the bus are 0 .. NumAddresses-1 (256 in the program).
NumAddresses == 3
\* Longest known-IDs file.
MaxFileIds == 2
\* Longest device list the reader is started from in SpecRead.
MaxDevices == 2

-----------------------------------------------------------------------------
(* Python values *)

None == <<>>
Some(x) == <<x>>

Last(s) == s[Len(s)]

LowerLetters == <<"a","b","c","d","e","f","g","h","i","j","k","l","m",
                  "n","o","p","q","r","s","t","u","v","w","x","y","z">>
UpperLetters == <<"A","B","C","D","E","F","G","H","I","J","K","L","M",
                  "N","O","P","Q","R","S","T","U","V","W","X","Y","Z">>
Whitespace == {" ", "\t", "\n"}

LowerChar(c) ==
    IF \E i \in 1..26 : UpperLetters[i] = c
    THEN LowerLetters[CHOOSE i \in 1..26 : UpperLetters[i] = c]
    ELSE c

UpperChar(c) ==
    IF \E i \in 1..26 : LowerLetters[i] = c
    THEN UpperLetters[CHOOSE i \in 1..26 : LowerLetters[i] = c]
    ELSE c

\* str.lower(), str.upper()
Lower(s) == [i \in 1..Len(s) |-> LowerChar(s[i])]
Upper(s) == [i \in 1..Len(s) |-> UpperChar(s[i])]

\* str.strip()
RECURSIVE LStrip(_)
LStrip(s) == IF s # <<>> /\ s[1] \in Whitespace THEN LStrip(Tail(s)) ELSE s
RECURSIVE RStrip(_)
RStrip(s) ==
    IF s # <<>> /\ s[Len(s)] \in Whitespace THEN RStrip(SubSeq(s, 1, Len(s) - 1)) ELSE s
Strip(s) == RStrip(LStrip(s))

\* str.startswith()
StartsWith(s, p) == Len(s) >= Len(p) /\ SubSeq(s, 1, Len(p)) = p

Digits == <<"0","1","2","3","4","5","6","7","8","9">>
IsDigit(c) == \E i \in 1..10 : Digits[i] = c
DigitVal(c) == (CHOOSE i \in 1..10 : Digits[i] = c) - 1

\* str(n) for n >= 0
RECURSIVE IntToStr(_)
IntToStr(n) == IF n < 10 THEN <<Digits[n + 1]>> ELSE IntToStr(n \div 10) \o <<Digits[(n % 10) + 1]>>

\* int(s) for a string of decimal digits
RECURSIVE StrToInt(_)
StrToInt(s) ==
    IF Len(s) = 1 THEN DigitVal(s[1])
    ELSE 10 * StrToInt(SubSeq(s, 1, Len(s) - 1)) + DigitVal(s[Len(s)])

\* dict.update({k: v}) on a dict kept as its items in insertion order
DictHas(d, k) == \E i \in 1..Len(d) : d[i][1] = k
DictSet_AlwaysAppend(d, k, v) == Append(d, <<k, v>>)
DictSet(d, k, v) ==
    IF DictHas(d, k)
    THEN [i \in 1..Len(d) |-> IF d[i][1] = k THEN <<k, v>> ELSE d[i]]
    ELSE Append(d, <<k, v>>)

LogRec(level, msg) == [level |-> level, msg |-> msg]

-----------------------------------------------------------------------------
(* datetime.strptime / strftime as used on the calibration expiry date *)

Directives == {"%d", "%m", "%y"}

\* the alternatives of a directive's pattern at position i of s, each as
\* <<value, position after it>>:
\*   %d  3[0-1] | [1-2]\d | 0[1-9] | [1-9] | " "[1-9]
\*   %m  1[0-2] | 0[1-9] | [1-9]
\*   %y  \d\d
TwoDigits(s, i) ==
    IF i + 1 <= Len(s) /\ IsDigit(s[i]) /\ IsDigit(s[i + 1])
    THEN {<<10 * DigitVal(s[i]) + DigitVal(s[i + 1]), i + 2>>} ELSE {}
OneDigit(s, i) ==
    IF i <= Len(s) /\ IsDigit(s[i]) /\ DigitVal(s[i]) >= 1
    THEN {<<DigitVal(s[i]), i + 1>>} ELSE {}
SpaceDigit(s, i) ==
    IF i + 1 <= Len(s) /\ s[i] = " " /\ IsDigit(s[i + 1]) /\ DigitVal(s[i + 1]) >= 1
    THEN {<<DigitVal(s[i + 1]), i + 2>>} ELSE {}

DirectiveAlts(dir, s, i) ==
    CASE dir = "%d" -> {a \in TwoDigits(s, i) : a[1] >= 1 /\ a[1] <= 31}
                         \cup OneDigit(s, i) \cup SpaceDigit(s, i)
      [] dir = "%m" -> {a \in TwoDigits(s, i) : a[1] >= 1 /\ a[1] <= 12} \cup OneDigit(s, i)
      [] dir = "%y" -> TwoDigits(s, i)

\* all ways the format fmt[j..] matches s[i..] up to the end of s
RECURSIVE MatchFrom(_, _, _, _, _)
MatchFrom(s, i, fmt, j, found) ==
    IF j > Len(fmt)
    THEN IF i = Len(s) + 1 THEN {found} ELSE {}
    ELSE IF fmt[j] \in Directives
         THEN UNION {MatchFrom(s, a[2], fmt, j + 1, [found EXCEPT ![fmt[j]] = a[1]])
                        : a \in DirectiveAlts(fmt[j], s, i)}
         ELSE IF i <= Len(s) /\ s[i] = fmt[j]
              THEN MatchFrom(s, i + 1, fmt, j + 1, found)
              ELSE {}

IsLeap(year) == (year % 4 = 0 /\ year % 100 # 0) \/ year % 400 = 0
DaysInMonth(year, month) ==
    CASE month \in {4, 6, 9, 11} -> 30
      [] month = 2 -> IF IsLeap(year) THEN 29 ELSE 28
      [] OTHER -> 31

\* a two-digit year: 00..68 -> 2000..2068, 69..99 -> 1969..1999
FullYear(yy) == IF yy <= 68 THEN 2000 + yy ELSE 1900 + yy

\* datetime.strptime(s, fmt): the date, or None where Python raises ValueError
Strptime(s, fmt) ==
    LET ms == MatchFrom(s, 1, fmt, 1, [d \in Directives |-> 0])
        ok == {m \in ms : m["%d"] <= DaysInMonth(FullYear(m["%y"]), m["%m"])}
    IN IF ok = {} THEN None
       ELSE LET m == CHOOSE x \in ok : TRUE
            IN Some([year |-> FullYear(m["%y"]), month |-> m["%m"], day |-> m["%d"]])

ZeroPad(n, width) ==
    LET t == IntToStr(n)
    IN [i \in 1..(width - Len(t)) |-> "0"] \o t

\* date.strftime('%Y-%m-%d')
StrftimeIso(date) ==
    ZeroPad(date.year, 4) \o <<"-">> \o ZeroPad(date.month, 2) \o <<"-">> \o ZeroPad(date.day, 2)

\* _date_formats = ['%d-%m-%y', '%d.%m.%y']
DateFormats_DashOnly == << <<"%d", "-", "%m", "-", "%y">> >>
DateFormats == << <<"%d", "-", "%m", "-", "%y">>, <<"%d", ".", "%m", ".", "%y">> >>

\* the loop over _date_formats: the field is assigned on a successful parse of
\* the raw string, and a ValueError continues with the next format
RECURSIVE ConvertLoop(_, _, _)
ConvertLoop(raw, k, stored) ==
    IF k > Len(DateFormats) THEN stored
    ELSE LET parsed == Strptime(raw, DateFormats[k])
         IN ConvertLoop(raw, k + 1,
                        IF parsed # None THEN StrftimeIso(parsed[1]) ELSE stored)

\* 'calibration_expired_date' of the device record, from the Optional raw value
ConvertCalibrationDate(exp_date) ==
    IF exp_date # None THEN Some(ConvertLoop(exp_date[1], 1, exp_date[1])) ELSE None

\* raw calibration dates a device may report
DayTexts == {<<"0","1">>, <<"3","1">>, <<"2","9">>, <<"3","0">>, <<"1">>, <<" ","5">>,
             <<"0","0">>, <<"3","2">>}
MonthTexts == {<<"0","2">>, <<"1","2">>, <<"1">>, <<"0","4">>, <<"1","3">>, <<"0","0">>}
YearTexts == {<<"2","4">>, <<"2","3">>, <<"0","0">>, <<"6","8">>, <<"6","9">>, <<"9","9">>,
              <<"2","0","2","4">>}
Separators == {"-", ".", "/"}
RawDates ==
    {d \o <<s1>> \o m \o <<s2>> \o y :
        d \in DayTexts, s1 \in Separators, m \in MonthTexts, s2 \in Separators, y \in YearTexts}
    \cup {<<>>, <<"2","0","2","4","-","1","2","-","3","1">>,
          <<"3","1","-","1","2","-","2","4"," ">>, <<"n","/","a">>}

-----------------------------------------------------------------------------
(* Configuration *)

\* _sensosys_configs_default
SensoSysConfigsDefault == [port |-> "COM1", scan_by_file |-> FALSE, time_out |-> "0.05"]

\* what SensoSysDevices.scan_com_ports() may return: None or the ports found
ComPortScans == {None, Some({"COM1", "COM3"})}

\* sys.exit(arg): the exit status of the process; sys.exit() is sys.exit(None)
ExitStatus(arg) == IF arg = None THEN 0 ELSE arg[1]

\* what the user may type at a prompt
AnswerInputs == {<<"y">>, <<" ", "N", " ">>, <<"x">>, <<>>, <<"y", "e", "s">>}
PortSuffixes == {"3", "7"}

\* input(...).lower().strip() compared with 'y' and 'n': Some(TRUE), Some(FALSE),
\* or None where the code logs the error and exits
YesNo(input_str) ==
    LET a == Strip(Lower(input_str))
    IN IF a = <<"y">> THEN Some(TRUE) ELSE IF a = <<"n">> THEN Some(FALSE) ELSE None

\* _check_port_name
CheckPortName_Always(configs, ports) == TRUE
CheckPortName(configs, ports) == configs.port \in ports

\* JSON objects a configuration file may hold, by key
ConfigKeyUniverse == {"port", "scan_by_file", "time_out", "baud_rate"}
ConfigObjectFull(port, scan_by_file, time_out) ==
    [port |-> port, scan_by_file |-> scan_by_file, time_out |-> time_out, baud_rate |-> "9600"]
ConfigObjects ==
    {[k \in K |-> ConfigObjectFull(p, b, t)[k]] :
        K \in SUBSET ConfigKeyUniverse, p \in {"COM1", "COM4"}, b \in BOOLEAN, t \in {"0.05", "0.1"}}
\* what is at the path: no file (None) or a file holding an object
ConfigFileStates == {None} \cup {Some(f) : f \in ConfigObjects}
\* the files the whole process is run on
ConfigFileSamples ==
    {None, Some([port |-> "COM4", scan_by_file |-> TRUE, time_out |-> "0.1"]),
     Some([port |-> "COM4", scan_by_file |-> FALSE])}

\* set(_configs.keys()) == set(self.sensosys_configs.keys())
KeysAccepted_Subset(file_configs, configs) == DOMAIN file_configs \subseteq DOMAIN configs
KeysAccepted(file_configs, configs) == DOMAIN file_configs = DOMAIN configs

\* dict.update(other)
DictUpdate(d, other) ==
    [k \in DOMAIN d \cup DOMAIN other |-> IF k \in DOMAIN other THEN other[k] ELSE d[k]]

\* _get_sensosys_configs_by_file: the configurations and the records logged
ConfigsByFile(configs, file_state) ==
    IF file_state # None
    THEN IF KeysAccepted(file_state[1], configs)
         THEN [configs |-> DictUpdate(configs, file_state[1]), succeed |-> TRUE, logged |-> <<>>]
         ELSE [configs |-> configs, succeed |-> FALSE,
               logged |-> <<LogRec("ERROR", "Some keys in file are invalid or incomplete")>>]
    ELSE [configs |-> configs, succeed |-> FALSE,
          logged |-> <<LogRec("ERROR", "Invalid file name")>>]

-----------------------------------------------------------------------------
(* Bus scan *)

Addresses == 0..(NumAddresses - 1)

ANEMO == <<"A","N","E","M","O">>
THERM == <<"T","H","E","R","M">>
HYGRO == <<"H","Y","G","R","O">>

T_A == <<"t","_","a">>
V == <<"v">>
VSTAR == <<"v","s","t","a","r">>
V_STAR == <<"v","_","s","t","a","r">>
T_G == <<"t","_","g">>
T_W == <<"t","_","w">>
T_S == <<"t","_","s">>
RH == <<"r","h">>
P_ABS == <<"p">>

\* SensoSys.senso_hygbar_sensor_config: sensor-config variant -> 'params'
HygbarVariants == {"rh_t", "p", "rh_t_p"}
SensoHygbarSensorConfig(variant) ==
    CASE variant = "rh_t" -> [params |-> <<RH, T_A>>]
      [] variant = "p" -> [params |-> <<P_ABS>>]
      [] variant = "rh_t_p" -> [params |-> <<RH, T_A, P_ABS>>]

\* what a device answers to the scan's reads: its instrument name as sent, its
\* calibration expiry date, and (hygrometer/barometer) its sensor configuration
Device(name, exp_date, variant) ==
    [instrument_name |-> name, calibration_expired_date |-> exp_date, sensor_config |-> variant]
BusDevices ==
    { Device(<<"A","N","E","M","O","-","X">>, Some(<<"3","1","-","1","2","-","2","4">>), "p"),
      Device(<<" ","h","y","g","r","o","4"," ">>, Some(<<"0","1",".","0","2",".","9","9">>), "rh_t"),
      Device(<<"B","A","R","O">>, None, "p") }
\* an identity query's outcome: no response, or a device
BusResponses == {None} \cup {Some(d) : d \in BusDevices}

\* the additional reads issued for a family, after the common ones
FamilyReads_NoError(name) ==
    IF StartsWith(name, ANEMO)
    THEN Some(<<"senso_anemo_read_configuration", "senso_anemo_read_indicator">>)
    ELSE IF StartsWith(name, THERM)
    THEN Some(<<"senso_therm_read_configuration">>
              \o [ch \in 1..4 |-> "senso_therm_read_indicator"])
    ELSE Some(<<"senso_hygbar_read_configuration">>)
FamilyReads(name) ==
    IF StartsWith(name, ANEMO)
    THEN Some(<<"senso_anemo_read_configuration", "senso_anemo_read_indicator">>)
    ELSE IF StartsWith(name, THERM)
    THEN Some(<<"senso_therm_read_configuration">>
              \o [ch \in 1..4 |-> "senso_therm_read_indicator"])
    ELSE IF StartsWith(name, HYGRO)
    THEN Some(<<"senso_hygbar_read_configuration">>)
    ELSE None

\* one iteration of the loop of _scan_devices
ScanOne(acc, id, resp) ==
    IF resp = None
    THEN [acc EXCEPT !.queries = Append(@, <<"read_instrument_name", id>>),
                     !.answered = Append(@, None)]
    ELSE LET name == Strip(Upper(resp[1].instrument_name))
             family == FamilyReads(name)
             common == <<"read_instrument_name", "read_serial_number",
                         "read_expired_calibration_date", "read_battery_state">>
             issued == common \o (IF family = None THEN <<>> ELSE family[1])
             queries == acc.queries \o [i \in 1..Len(issued) |-> <<issued[i], id>>]
             record == [instrument_name |-> name,
                        calibration_expired_date |->
                            ConvertCalibrationDate(resp[1].calibration_expired_date),
                        sensor_config |->
                            IF StartsWith(name, HYGRO) THEN Some(resp[1].sensor_config) ELSE None]
         IN IF family = None
            THEN [acc EXCEPT !.queries = queries, !.answered = Append(@, Some(resp[1].instrument_name)),
                             !.error = Some("ValueError: Invalid instrument name")]
            ELSE [acc EXCEPT !.queries = queries, !.answered = Append(@, Some(resp[1].instrument_name)),
                             !.devices = DictSet(@, IntToStr(id), record)]

RECURSIVE ScanFrom(_, _, _, _)
ScanFrom(ids, resp, i, acc) ==
    IF i > Len(ids) \/ acc.error # None THEN acc
    ELSE ScanFrom(ids, resp, i + 1, ScanOne(acc, ids[i], resp[i]))

\* _scan_devices(ids): the devices found (or the error raised), with the reads
\* issued and which identity queries were answered
ScanDevices(ids, resp) ==
    ScanFrom(ids, resp, 1, [devices |-> <<>>, queries |-> <<>>, answered |-> <<>>, error |-> None])

\* _scan_devices_by_ids: list(range(0, 256))
FullRange == [i \in 1..NumAddresses |-> i - 1]

\* contents of the known-IDs file: integer-valued strings
IdTexts == {IntToStr(a) : a \in Addresses} \cup {<<"0">> \o IntToStr(1)}
KnownIdFiles == UNION {[1..n -> IdTexts] : n \in 0..MaxFileIds}
\* _scan_devices_by_file: [int(i) for i in _ids_str]
IdsOfFile(ids_str) == [i \in 1..Len(ids_str) |-> StrToInt(ids_str[i])]

\* the device list: [(k, v['instrument_name'], v.get('sensor_config')) ...]
DevicesList(devices) ==
    [i \in 1..Len(devices) |->
        <<devices[i][1], devices[i][2].instrument_name, devices[i][2].sensor_config>>]

-----------------------------------------------------------------------------
(* Header names and read cycle *)

\* f'{p}_{_id}'
ParamName(p, id) == p \o <<"_">> \o id

AnemoParams == <<T_A, V, VSTAR>>
ThermParams == <<T_A, T_G, T_W, T_S>>

\* one iteration of the loop of get_all_measurement_parameters
ParamsOfDevice(dev) ==
    LET id == dev[1]
        name == dev[2]
        sensor_config == dev[3]
    IN IF StartsWith(name, ANEMO)
       THEN Some([i \in 1..3 |-> ParamName(AnemoParams[i], id)])
       ELSE IF StartsWith(name, THERM)
       THEN Some([i \in 1..4 |-> ParamName(ThermParams[i], id)])
       ELSE IF StartsWith(name, HYGRO)
       THEN LET ps == SensoHygbarSensorConfig(sensor_config[1]).params
            IN Some([i \in 1..Len(ps) |-> ParamName(ps[i], id)])
       ELSE None

\* get_all_measurement_parameters: the names, or the error raised
RECURSIVE ParamsFrom(_, _, _)
ParamsFrom(list, i, params) ==
    IF i > Len(list) THEN [params |-> params, error |-> None]
    ELSE LET ps == ParamsOfDevice(list[i])
         IN IF ps = None
            THEN [params |-> params, error |-> Some("ValueError: Invalid instrument name")]
            ELSE ParamsFrom(list, i + 1, params \o ps[1])
GetAllMeasurementParameters(list) == ParamsFrom(list, 1, <<>>)

\* a value measured by the device at an address for a response key
Reading(addr, key) == [addr |-> addr, key |-> key]
\* the response of a measurement read that is answered: key -> value
MeasurementResponse(addr, keys) == [k \in keys |-> Reading(addr, k)]
AnemoResponseKeys == {T_A, V, V_STAR}
ThermResponseKeys == {T_A, T_G, T_W, T_S}
HygbarResponseKeys(sensor_config) ==
    LET ps == SensoHygbarSensorConfig(sensor_config).params IN {ps[i] : i \in 1..Len(ps)}

\* dict.get(key)
Get(d, key) == IF key \in DOMAIN d THEN Some(d[key]) ELSE None

\* the values an ANEMO / a THERM device contributes when its read is not answered
AnemoAbsent_Two == <<None, None>>
AnemoAbsent == <<None, None, None>>
ThermAbsent_Three == <<None, None, None>>
ThermAbsent == <<None, None, None, None>>

\* one iteration of the loop of read_data; answered says whether the
\* measurement read of this device gets a response
DataOfDevice(dev, answered) ==
    LET id == StrToInt(dev[1])
        name == dev[2]
        sensor_config == dev[3]
        warning == <<LogRec("WARNING", "No data received")>>
    IN IF StartsWith(name, ANEMO)
       THEN IF ~answered
            THEN Some([data |-> AnemoAbsent, logged |-> warning, read |-> id])
            ELSE LET resp == MeasurementResponse(id, AnemoResponseKeys)
                 IN Some([data |-> <<Get(resp, T_A), Get(resp, V), Get(resp, V_STAR)>>,
                          logged |-> <<>>, read |-> id])
       ELSE IF StartsWith(name, THERM)
       THEN IF ~answered
            THEN Some([data |-> ThermAbsent, logged |-> warning, read |-> id])
            ELSE LET resp == MeasurementResponse(id, ThermResponseKeys)
                 IN Some([data |-> <<Get(resp, T_A), Get(resp, T_G), Get(resp, T_W), Get(resp, T_S)>>,
                          logged |-> <<>>, read |-> id])
       ELSE IF StartsWith(name, HYGRO)
       THEN LET ps == SensoHygbarSensorConfig(sensor_config[1]).params
            IN IF ~answered
               THEN Some([data |-> [i \in 1..Len(ps) |-> None], logged |-> warning, read |-> id])
               ELSE LET resp == MeasurementResponse(id, HygbarResponseKeys(sensor_config[1]))
                    IN Some([data |-> [i \in 1..Len(ps) |-> Get(resp, ps[i])],
                             logged |-> <<>>, read |-> id])
       ELSE None

\* read_data: the row, the records logged and the addresses read, or the error
RECURSIVE DataFrom(_, _, _, _)
DataFrom(list, answered, i, acc) ==
    IF i > Len(list) THEN acc
    ELSE LET d == DataOfDevice(list[i], answered[i])
         IN IF d = None
            THEN [acc EXCEPT !.error = Some("ValueError: Invalid instrument name")]
            ELSE DataFrom(list, answered, i + 1,
                          [acc EXCEPT !.data = @ \o d[1].data,
                                      !.logged = @ \o d[1].logged,
                                      !.reads = Append(@, d[1].read)])
ReadData(list, answered) ==
    DataFrom(list, answered, 1, [data |-> <<>>, logged |-> <<>>, reads |-> <<>>, error |-> None])

-----------------------------------------------------------------------------
(* The process: SensoSysDataSource.__init__ followed by __main__ *)

ConfigFileArgs == {None, Some("_config/SensoSysConfigs_default.json")}
OutputDirArgs == {None, Some("Test")}

\* groups of variables
arguments == <<sensosys_config_file, config_file_state, output_dir>>
scanned == <<scan_ids, scan_resp, bus_log, sensosys_devices>>
logged_data == <<headers, data, read_log, reads>>
dates == <<exp_raw, exp_stored>>

Unstarted ==
    /\ sensosys_configs = SensoSysConfigsDefault
    /\ available_ports = {}
    /\ log = <<>>
    /\ exit_code = None
    /\ raised = None
    /\ prompts = <<>>
    /\ last_input = None
    /\ files_written = <<>>
    /\ scan_ids = <<>>
    /\ scan_resp = <<>>
    /\ bus_log = <<>>
    /\ headers = None
    /\ data = None
    /\ read_log = <<>>
    /\ reads = <<>>

Init ==
    /\ pc = "new"
    /\ sensosys_config_file \in ConfigFileArgs
    /\ config_file_state \in (IF sensosys_config_file = None THEN {None} ELSE ConfigFileSamples)
    /\ output_dir \in OutputDirArgs
    /\ Unstarted
    /\ sensosys_devices = <<>>
    /\ sensosys_devices_list = <<>>
    /\ exp_raw = None
    /\ exp_stored = None

\* logger.error(msg); sys.exit(arg)
ErrorExit_Info(msg, arg) ==
    /\ log' = Append(log, LogRec("INFO", msg))
    /\ exit_code' = Some(ExitStatus(arg))
    /\ pc' = "exited"
ErrorExit(msg, arg) ==
    /\ log' = Append(log, LogRec("ERROR", msg))
    /\ exit_code' = Some(ExitStatus(arg))
    /\ pc' = "exited"

\* __init__ up to the choice of the configuration path, with _scan_available_ports
Construct ==
    /\ pc = "new"
    /\ \E found \in ComPortScans :
        \/ /\ found = None
           /\ ErrorExit("No available ports found, exiting", None)
           /\ UNCHANGED available_ports
        \/ /\ found # None
           /\ available_ports' = found[1]
           /\ pc' = IF sensosys_config_file = None THEN "guide_devmgmt" ELSE "config_file"
           /\ UNCHANGED <<log, exit_code>>
    /\ sensosys_configs' = SensoSysConfigsDefault
    /\ UNCHANGED <<arguments, raised, prompts, last_input, files_written, scanned,
                   sensosys_devices_list, logged_data, dates>>

\* _get_sensosys_configs_by_guide: _get_if_pop_system_device_management
GuideDevMgmt ==
    /\ pc = "guide_devmgmt"
    /\ prompts' = Append(prompts, "Open the system device management")
    /\ \E input_str \in AnswerInputs :
        /\ last_input' = Some(input_str)
        /\ \/ /\ YesNo(input_str) # None
              /\ pc' = "guide_port"
              /\ UNCHANGED <<log, exit_code>>
           \/ /\ YesNo(input_str) = None
              /\ ErrorExit("Invalid input, it can only be 'y' or 'n', exiting", Some(1))
    /\ UNCHANGED <<arguments, sensosys_configs, available_ports, raised, files_written, scanned,
                   sensosys_devices_list, logged_data, dates>>

\* _get_sensosys_configs_by_guide: _get_port_name and _check_port_name
GuidePort ==
    /\ pc = "guide_port"
    /\ prompts' = Append(prompts, "Enter the port number")
    /\ \E input_str \in PortSuffixes :
        LET configs == [sensosys_configs EXCEPT !.port = "COM" \o input_str]
        IN /\ last_input' = Some(<<input_str>>)
           /\ sensosys_configs' = configs
           /\ \/ /\ CheckPortName(configs, available_ports)
                 /\ pc' = "guide_scan_by_file"
                 /\ UNCHANGED <<log, exit_code>>
              \/ /\ ~CheckPortName(configs, available_ports)
                 /\ ErrorExit("The COM port is unavailable, exiting", Some(1))
    /\ UNCHANGED <<arguments, available_ports, raised, files_written, scanned,
                   sensosys_devices_list, logged_data, dates>>

\* _get_sensosys_configs_by_guide: _get_scan_by_file and the dump of the configs
GuideScanByFile ==
    /\ pc = "guide_scan_by_file"
    /\ prompts' = Append(prompts, "Scan devices by the file")
    /\ \E input_str \in AnswerInputs :
        /\ last_input' = Some(input_str)
        /\ \/ /\ YesNo(input_str) # None
              /\ sensosys_configs' = [sensosys_configs EXCEPT !.scan_by_file = YesNo(input_str)[1]]
              /\ files_written' = IF output_dir # None
                                  THEN Append(files_written, "SensoSysConfigs.json")
                                  ELSE files_written
              /\ pc' = "scan"
              /\ UNCHANGED <<log, exit_code>>
           \/ /\ YesNo(input_str) = None
              /\ ErrorExit("Invalid input, it can only be 'y' or 'n', exiting", Some(1))
              /\ UNCHANGED <<sensosys_configs, files_written>>
    /\ UNCHANGED <<arguments, available_ports, raised, scanned, sensosys_devices_list,
                   logged_data, dates>>

\* __init__: configuration by file
ConfigByFile ==
    /\ pc = "config_file"
    /\ LET r == ConfigsByFile(sensosys_configs, config_file_state)
       IN /\ sensosys_configs' = r.configs
          /\ log' = log \o r.logged \o
                    (IF r.succeed THEN <<>>
                     ELSE <<LogRec("WARNING", "Failed to update SensoSys configurations by file, using default values")>>)
    /\ pc' = "scan"
    /\ UNCHANGED <<arguments, available_ports, exit_code, raised, prompts, last_input,
                   files_written, scanned, sensosys_devices_list, logged_data, dates>>

\* len(self.sensosys_devices) == 0
NoDevicesFound_Never(devices) == FALSE
NoDevicesFound(devices) == Len(devices) = 0

\* __init__: the scan and the exit when nothing is found
Scan ==
    /\ pc = "scan"
    /\ \E ids \in (IF sensosys_configs.scan_by_file
                   THEN {IdsOfFile(f) : f \in KnownIdFiles}
                   ELSE {FullRange}) :
       \E resp \in [1..Len(ids) -> BusResponses] :
        LET r == ScanDevices(ids, resp)
        IN /\ scan_ids' = ids
           /\ scan_resp' = r.answered
           /\ bus_log' = r.queries
           /\ \/ /\ r.error # None
                 /\ raised' = r.error
                 /\ pc' = "raised"
                 /\ UNCHANGED <<sensosys_devices, log, exit_code>>
              \/ /\ r.error = None
                 /\ NoDevicesFound(r.devices)
                 /\ sensosys_devices' = r.devices
                 /\ ErrorExit("No devices found, please check the connection, exiting", Some(0))
                 /\ UNCHANGED raised
              \/ /\ r.error = None
                 /\ ~NoDevicesFound(r.devices)
                 /\ sensosys_devices' = r.devices
                 /\ pc' = "ask_continue"
                 /\ UNCHANGED <<raised, log, exit_code>>
    /\ UNCHANGED <<arguments, sensosys_configs, available_ports, prompts, last_input,
                   files_written, sensosys_devices_list, logged_data, dates>>

\* __init__: _get_if_continue, the FoundDevices snapshot and the device list
AskContinue ==
    /\ pc = "ask_continue"
    /\ prompts' = Append(prompts, "Continue")
    /\ \E input_str \in AnswerInputs :
        /\ last_input' = Some(input_str)
        /\ \/ /\ YesNo(input_str) = Some(TRUE)
              /\ files_written' = IF output_dir # None
                                  THEN Append(files_written, "FoundDevices.json")
                                  ELSE files_written
              /\ sensosys_devices_list' = DevicesList(sensosys_devices)
              /\ pc' = "ready"
              /\ UNCHANGED <<log, exit_code>>
           \/ /\ YesNo(input_str) = Some(FALSE)
              /\ log' = Append(log, LogRec("INFO", "Exiting manually"))
              /\ exit_code' = Some(ExitStatus(Some(0)))
              /\ pc' = "exited"
              /\ UNCHANGED <<files_written, sensosys_devices_list>>
           \/ /\ YesNo(input_str) = None
              /\ ErrorExit("Invalid input, it can only be 'y' or 'n', exiting", Some(1))
              /\ UNCHANGED <<files_written, sensosys_devices_list>>
    /\ UNCHANGED <<arguments, sensosys_configs, available_ports, raised, scanned,
                   logged_data, dates>>

\* __main__: the headers handed to the DataLogger
GetHeaders ==
    /\ pc = "ready"
    /\ LET r == GetAllMeasurementParameters(sensosys_devices_list)
       IN IF r.error = None
          THEN headers' = Some(r.params) /\ pc' = "logging" /\ UNCHANGED raised
          ELSE raised' = r.error /\ pc' = "raised" /\ UNCHANGED headers
    /\ UNCHANGED <<arguments, sensosys_configs, available_ports, log, exit_code, prompts,
                   last_input, files_written, scanned, sensosys_devices_list,
                   data, read_log, reads, dates>>

\* one cycle of run_data_logging: read_data on the source
ReadCycle ==
    /\ pc = "logging"
    /\ \E answered \in [1..Len(sensosys_devices_list) -> BOOLEAN] :
        LET r == ReadData(sensosys_devices_list, answered)
        IN /\ read_log' = r.logged
           /\ reads' = r.reads
           /\ IF r.error = None
              THEN data' = Some(r.data) /\ UNCHANGED <<raised, pc>>
              ELSE raised' = r.error /\ pc' = "raised" /\ UNCHANGED data
    /\ UNCHANGED <<arguments, sensosys_configs, available_ports, log, exit_code, prompts,
                   last_input, files_written, scanned, sensosys_devices_list, headers, dates>>

\* run_data_logging returns when its duration is over
Finish ==
    /\ pc = "logging"
    /\ pc' = "done"
    /\ UNCHANGED <<arguments, sensosys_configs, available_ports, log, exit_code, raised,
                   prompts, last_input, files_written, scanned, sensosys_devices_list,
                   logged_data, dates>>

Next ==
    \/ Construct
    \/ GuideDevMgmt
    \/ GuidePort
    \/ GuideScanByFile
    \/ ConfigByFile
    \/ Scan
    \/ AskContinue
    \/ GetHeaders
    \/ ReadCycle
    \/ Finish

Spec == Init /\ [][Next]_vars

-----------------------------------------------------------------------------
(* Configuration by file, over every file in ConfigFileStates *)

InitConfig ==
    /\ pc = "new"
    /\ sensosys_config_file = Some("_config/SensoSysConfigs_default.json")
    /\ config_file_state \in ConfigFileStates
    /\ output_dir \in OutputDirArgs
    /\ Unstarted
    /\ sensosys_devices = <<>>
    /\ sensosys_devices_list = <<>>
    /\ exp_raw = None
    /\ exp_stored = None

NextConfig ==
    \/ Construct
    \/ ConfigByFile

SpecConfig == InitConfig /\ [][NextConfig]_vars

-----------------------------------------------------------------------------
(* The reader on any device list a scan can produce *)

\* the records a scan stores: normalised name and sensor configuration
FoundRecords ==
    { [instrument_name |-> <<"A","N","E","M","O","-","X">>,
       calibration_expired_date |-> None, sensor_config |-> None],
      [instrument_name |-> <<"T","H","E","R","M","O">>,
       calibration_expired_date |-> None, sensor_config |-> None] }
    \cup { [instrument_name |-> <<"H","Y","G","R","O","4">>,
            calibration_expired_date |-> None, sensor_config |-> Some(v)] : v \in HygbarVariants }

\* sequences of at most MaxDevices distinct addresses
AddressLists ==
    {a \in UNION {[1..n -> Addresses] : n \in 1..MaxDevices} :
        \A i, j \in 1..Len(a) : i # j => a[i] # a[j]}

FoundDevices ==
    UNION {{[i \in 1..Len(a) |-> <<IntToStr(a[i]), rec[i]>>] : rec \in [1..Len(a) -> FoundRecords]}
              : a \in AddressLists}

InitRead ==
    /\ pc = "ready"
    /\ sensosys_config_file = None
    /\ config_file_state = None
    /\ output_dir = None
    /\ Unstarted
    /\ sensosys_devices \in FoundDevices
    /\ sensosys_devices_list = DevicesList(sensosys_devices)
    /\ exp_raw = None
    /\ exp_stored = None

NextRead ==
    \/ GetHeaders
    \/ ReadCycle
    \/ Finish

SpecRead == InitRead /\ [][NextRead]_vars

-----------------------------------------------------------------------------
(* The calibration date of one responding device *)

InitDate ==
    /\ pc = "date_read"
    /\ sensosys_config_file = None
    /\ config_file_state = None
    /\ output_dir = None
    /\ Unstarted
    /\ sensosys_devices = <<>>
    /\ sensosys_devices_list = <<>>
    /\ exp_raw \in {None} \cup {Some(r) : r \in RawDates}
    /\ exp_stored = None

\* _scan_devices: the conversion of 'calibration_expired_date'
StoreCalibrationDate ==
    /\ pc = "date_read"
    /\ exp_stored' = ConvertCalibrationDate(exp_raw)
    /\ pc' = "date_stored"
    /\ UNCHANGED <<arguments, sensosys_configs, available_ports, log, exit_code, raised,
                   prompts, last_input, files_written, scanned, sensosys_devices_list,
                   logged_data, exp_raw>>

NextDate == StoreCalibrationDate

SpecDate == InitDate /\ [][NextDate]_vars

-----------------------------------------------------------------------------
(* Properties of the reader (SpecRead) *)

\* the header prefix under which a response key is reported
HeaderPrefixOfKey(key) == IF key = V_STAR THEN VSTAR ELSE key

\* C1: whatever the device list and whichever devices answer, the row of
\* read_data is as long as the list of get_all_measurement_parameters, and a
\* value at a position was measured at the address and for the parameter that
\* the header at that position names.
C1_RowMatchesHeaders ==
    (headers # None /\ data # None) =>
        /\ Len(data[1]) = Len(headers[1])
        /\ \A i \in 1..Len(data[1]) :
              data[1][i] # None =>
                  headers[1][i] = HeaderPrefixOfKey(data[1][i][1].key) \o <<"_">>
                                      \o IntToStr(data[1][i][1].addr)

\* C1 witness: a list of two devices, one of them a hygrometer/barometer, with
\* one device answering and the other not.
C1_Witness ==
    /\ headers # None
    /\ data # None
    /\ Len(sensosys_devices_list) = 2
    /\ \E i \in 1..2 : StartsWith(sensosys_devices_list[i][2], HYGRO)
    /\ Len(read_log) = 1
    /\ Len(data[1]) >= 4

\* the number of values a device has in a row, by family
ParameterCount(dev) ==
    IF StartsWith(dev[2], ANEMO) THEN 3
    ELSE IF StartsWith(dev[2], THERM) THEN 4
    ELSE Len(SensoHygbarSensorConfig(dev[3][1]).params)

RECURSIVE RowOffset(_, _)
RowOffset(list, i) == IF i = 1 THEN 0 ELSE RowOffset(list, i - 1) + ParameterCount(list[i - 1])

\* C4: after a read cycle every device of the list has its ParameterCount
\* places in the row, in list order, either all absent or all present; one
\* warning is logged per device with absent values; every device of the list
\* was read; and the cycle returned the row (nothing raised, no exit).
C4_FailedReadDegrades ==
    data # None =>
        LET list == sensosys_devices_list
            n == Len(list)
            block(i) == {RowOffset(list, i) + k : k \in 1..ParameterCount(list[i])}
            absent == {i \in 1..n : \A q \in block(i) : data[1][q] = None}
            present == {i \in 1..n : \A q \in block(i) : data[1][q] # None}
        IN /\ Len(data[1]) = RowOffset(list, n) + ParameterCount(list[n])
           /\ absent \cup present = 1..n
           /\ Len(read_log) = Cardinality(absent)
           /\ \A j \in 1..Len(read_log) : read_log[j].level = "WARNING"
           /\ reads = [i \in 1..n |-> StrToInt(list[i][1])]
           /\ raised = None
           /\ exit_code = None
           /\ pc \in {"logging", "done"}

\* C4 witness: an anemometer that does not answer, followed by a device that
\* does: three absent values, then the values of the second device.
C4_Witness ==
    /\ data # None
    /\ Len(sensosys_devices_list) = 2
    /\ StartsWith(sensosys_devices_list[1][2], ANEMO)
    /\ SubSeq(data[1], 1, 3) = <<None, None, None>>
    /\ \A q \in 4..Len(data[1]) : data[1][q] # None
    /\ Len(read_log) = 1
    /\ Len(reads) = 2

-----------------------------------------------------------------------------
(* Properties of the calibration date (SpecDate) *)

\* the ways a day and a month number may be written in the two patterns
DayWritings(d) ==
    {ZeroPad(d, 2)} \cup (IF d < 10 THEN {IntToStr(d), <<" ">> \o IntToStr(d)} ELSE {})
MonthWritings(m) == {ZeroPad(m, 2)} \cup (IF m < 10 THEN {IntToStr(m)} ELSE {})

\* the dates (as YYYY-MM-DD) of which raw is a writing: day, month and
\* two-digit year of a calendar date, in this order, separated by sep
DatesWritten(raw, sep) ==
    LET days == {p \in UNION {{<<d, dt>> : dt \in DayWritings(d)} : d \in 1..31} :
                    StartsWith(raw, p[2] \o <<sep>>)}
        months(dt) == {p \in UNION {{<<m, mt>> : mt \in MonthWritings(m)} : m \in 1..12} :
                          StartsWith(raw, dt \o <<sep>> \o p[2] \o <<sep>>)}
        century(yy) == IF yy >= 69 THEN 1900 ELSE 2000
        years(dp, mp) == {yy \in 0..99 :
                             /\ raw = dp[2] \o <<sep>> \o mp[2] \o <<sep>> \o ZeroPad(yy, 2)
                             /\ dp[1] <= DaysInMonth(century(yy) + yy, mp[1])}
    IN UNION {UNION {{ZeroPad(century(yy) + yy, 4) \o <<"-">> \o ZeroPad(mp[1], 2)
                          \o <<"-">> \o ZeroPad(dp[1], 2) : yy \in years(dp, mp)}
                        : mp \in months(dp[2])}
                 : dp \in days}

\* C10: the stored calibration date is the ISO form of the raw string when the
\* raw string is a date written day-month-year with '-' or with '.', and the
\* raw string unchanged otherwise (a missing date stays missing).
C10_CalibrationDateNormalised ==
    pc = "date_stored" =>
        IF exp_raw = None THEN exp_stored = None
        ELSE LET isos == DatesWritten(exp_raw[1], "-") \cup DatesWritten(exp_raw[1], ".")
             IN /\ exp_stored # None
                /\ Cardinality(isos) <= 1
                /\ IF isos # {} THEN exp_stored[1] \in isos ELSE exp_stored = exp_raw

\* C10 witness: a date written with '.', which only the second pattern
\* accepts, stored in ISO form.
C10_Witness ==
    /\ pc = "date_stored"
    /\ exp_raw = Some(<<"2","9",".","0","2",".","2","4">>)
    /\ exp_stored = Some(<<"2","0","2","4","-","0","2","-","2","9">>)

-----------------------------------------------------------------------------
(* Properties of the configuration by file (SpecConfig) *)

HasErrorRecord(records) == \E i \in 1..Len(records) : records[i].level = "ERROR"

\* C2: once the file has been handled, the configurations are the file's
\* values exactly when a file is there and its keys are port, scan_by_file
\* and time_out; in every other case they are the default triple, an error
\* has been logged, and the process goes on to the scan without exiting.
C2_FileConfigAllOrNothing ==
    pc = "scan" =>
        LET exact == /\ config_file_state # None
                     /\ DOMAIN config_file_state[1] = {"port", "scan_by_file", "time_out"}
        IN /\ exact <=> (config_file_state # None /\ sensosys_configs = config_file_state[1])
           /\ exact => ~HasErrorRecord(log)
           /\ ~exact =>
                /\ sensosys_configs = [port |-> "COM1", scan_by_file |-> FALSE, time_out |-> "0.05"]
                /\ HasErrorRecord(log)
                /\ exit_code = None
                /\ raised = None

\* C2 witness: a file holding only port and scan_by_file has been handled.
C2_Witness ==
    /\ pc = "scan"
    /\ config_file_state # None
    /\ DOMAIN config_file_state[1] = {"port", "scan_by_file"}
    /\ config_file_state[1].port = "COM4"
    /\ sensosys_configs = SensoSysConfigsDefault
    /\ HasErrorRecord(log)

-----------------------------------------------------------------------------
(* Properties of the process (Spec) *)

\* the name a device sent is, uppercased and trimmed, one of the three families
Recognised(sent) ==
    \E family \in {ANEMO, THERM, HYGRO} : StartsWith(Strip(Upper(sent)), family)

Unrecognised == {i \in 1..Len(scan_resp) : scan_resp[i] # None /\ ~Recognised(scan_resp[i][1])}

DeviceKeys == {sensosys_devices[i][1] : i \in 1..Len(sensosys_devices)}

\* the position in bus_log of the i-th identity query
IdentityQueries == {q \in 1..Len(bus_log) : bus_log[q][1] = "read_instrument_name"}
IdentityQuery(i) ==
    CHOOSE q \in IdentityQueries : Cardinality({r \in IdentityQueries : r <= q}) = i

\* C3: an identity query without a response is followed by no other read of
\* that address and by no error; a response with a name of no known family
\* fails the whole scan, nothing being returned even for devices scanned
\* before; otherwise the mapping holds exactly the addresses that responded.
C3_ScanResult ==
    /\ Cardinality(IdentityQueries) = Len(scan_resp)
    /\ \A i \in 1..Len(scan_resp) :
          scan_resp[i] = None =>
              LET q == IdentityQuery(i)
              IN /\ bus_log[q][2] = scan_ids[i]
                 /\ q = Len(bus_log) \/ bus_log[q + 1][1] = "read_instrument_name"
    /\ Unrecognised # {} =>
          /\ pc = "raised"
          /\ raised # None
          /\ sensosys_devices = <<>>
          /\ sensosys_devices_list = <<>>
    /\ Unrecognised = {} =>
          /\ raised = None
          /\ Len(scan_resp) = Len(scan_ids)
          /\ DeviceKeys = {IntToStr(scan_ids[i]) : i \in {j \in 1..Len(scan_resp) : scan_resp[j] # None}}

\* C3 witness: the first address responded with a known family, the second
\* did not respond, the third responded with an unknown family.
C3_Witness ==
    /\ pc = "raised"
    /\ Len(scan_resp) = 3
    /\ scan_resp[1] # None /\ Recognised(scan_resp[1][1])
    /\ scan_resp[2] = None
    /\ sensosys_devices = <<>>

ExitReason == IF log = <<>> THEN "" ELSE Last(log).msg

CleanStopReasons ==
    {"Exiting manually", "No devices found, please check the connection, exiting"}
ValidationReasons ==
    {"Invalid input, it can only be 'y' or 'n', exiting", "The COM port is unavailable, exiting"}

\* C5: an exit has code 0 exactly when it is the stop asked for at the Continue
\* prompt or the stop for no devices found, code 1 exactly when it follows an
\* invalid answer or an unavailable port, and no other code.
C5_ExitCodes ==
    exit_code # None =>
        /\ exit_code[1] \in {0, 1}
        /\ exit_code[1] = 0 <=> ExitReason \in CleanStopReasons
        /\ exit_code[1] = 1 <=> ExitReason \in ValidationReasons

NothingAnswered(resp) == \A i \in 1..Len(resp) : resp[i] = None

\* C7: the Continue prompt, the FoundDevices snapshot, the device list, the
\* headers and the read cycles exist only with at least one device found; and
\* a scan in which no address responds ends, in that step, in an exit with
\* code 0 after an error record, with none of them done.
C7_ZeroDevicesExitsBeforeReady ==
    /\ [](( \/ pc \in {"ask_continue", "ready", "logging", "done"}
            \/ \E i \in 1..Len(prompts) : prompts[i] = "Continue"
            \/ \E i \in 1..Len(files_written) : files_written[i] = "FoundDevices.json"
            \/ sensosys_devices_list # <<>>
            \/ headers # None
            \/ data # None )
           => Len(sensosys_devices) >= 1)
    /\ [][ (pc = "scan" /\ NothingAnswered(scan_resp'))
            => /\ pc' = "exited"
               /\ exit_code' = Some(0)
               /\ log' = Append(log, LogRec("ERROR", "No devices found, please check the connection, exiting"))
               /\ prompts' = prompts
               /\ files_written' = files_written
               /\ sensosys_devices_list' = <<>>
               /\ headers' = None
               /\ data' = None ]_vars

\* C7 witness: every address of the full range was queried, none responded,
\* and the process has exited with code 0.
C7_Witness ==
    /\ pc = "exited"
    /\ exit_code = Some(0)
    /\ Len(scan_resp) = NumAddresses
    /\ NothingAnswered(scan_resp)
    /\ ExitReason = "No devices found, please check the connection, exiting"

PromptOrder ==
    <<"Open the system device management", "Enter the port number",
      "Scan devices by the file", "Continue">>

\* C8: in the guided path the prompts come in the fixed order; a yes/no answer
\* that is neither y nor n has exited the process; a port outside the
\* available ports has exited it with code 1 before the scan-by-file prompt;
\* and the scan is started only after the three prompts, with an available
\* port.
C8_GuidedPathValidates ==
    sensosys_config_file = None =>
        /\ Len(prompts) <= 4
        /\ prompts = SubSeq(PromptOrder, 1, Len(prompts))
        /\ (/\ prompts # <<>>
            /\ Last(prompts) # "Enter the port number"
            /\ Strip(Lower(last_input[1])) \notin {<<"y">>, <<"n">>})
           => (pc = "exited" /\ exit_code = Some(1))
        /\ (Len(prompts) >= 2 /\ sensosys_configs.port \notin available_ports)
           => (pc = "exited" /\ exit_code = Some(1) /\ Len(prompts) = 2)
        /\ (pc \in {"scan", "raised", "ask_continue", "ready", "logging", "done"} \/ bus_log # <<>>)
           => (Len(prompts) >= 3 /\ sensosys_configs.port \in available_ports)

\* C8 witness: the port typed is not available and the process has exited
\* with code 1 after two prompts.
C8_Witness ==
    /\ sensosys_config_file = None
    /\ pc = "exited"
    /\ exit_code = Some(1)
    /\ Len(prompts) = 2
    /\ sensosys_configs.port = "COM7"
    /\ available_ports # {}

ListAddresses == [i \in 1..Len(sensosys_devices_list) |-> StrToInt(sensosys_devices_list[i][1])]

\* C9 as stated: the addresses of the device list are strictly ascending.
C9_ListAscending ==
    \A i \in 1..(Len(ListAddresses) - 1) : ListAddresses[i] < ListAddresses[i + 1]

\* the first query of the scan that address a answered
FirstAnswer(a) ==
    CHOOSE i \in 1..Len(scan_resp) :
        /\ scan_ids[i] = a /\ scan_resp[i] # None
        /\ \A j \in 1..(i - 1) : ~(scan_ids[j] = a /\ scan_resp[j] # None)

\* C9 amended: each address is at most once in the device list, the list holds
\* the addresses that answered, in the order in which they first answered
\* during the scan; this is ascending address in the full-range scan.
C9_ListInScanOrder ==
    pc \in {"ready", "logging", "done"} =>
        LET n == Len(ListAddresses)
        IN /\ \A i, j \in 1..n : i # j => ListAddresses[i] # ListAddresses[j]
           /\ {ListAddresses[i] : i \in 1..n}
                = {scan_ids[i] : i \in {j \in 1..Len(scan_resp) : scan_resp[j] # None}}
           /\ \A i \in 1..(n - 1) : FirstAnswer(ListAddresses[i]) < FirstAnswer(ListAddresses[i + 1])
           /\ ~sensosys_configs.scan_by_file => C9_ListAscending

\* C9 witness: a known-IDs file naming a higher address before a lower one,
\* both answering: the list is in file order.
C9_Witness ==
    /\ pc = "ready"
    /\ sensosys_configs.scan_by_file
    /\ Len(ListAddresses) = 2
    /\ ListAddresses[1] > ListAddresses[2]

====
